---------------------------- MODULE Spec2Model ----------------------------
(***************************************************************************)
(* The Flask shim of the Supabase client (src/src/integrations/supabase/   *)
(* client.ts): the transport helper api(), the chainable query builder     *)
(* returned by from(), and the auth facade with its polled session.        *)
(*                                                                         *)
(* JavaScript runs every continuation to completion, so one action is one  *)
(* synchronous stretch of code: a call up to its first await (the fetch    *)
(* is then in flight), or the stretch that runs once the awaited fetch     *)
(* has settled.  The second await of api() (res.json() / res.text())       *)
(* touches no shared state and is folded into the settling step.           *)
(***************************************************************************)
EXTENDS Integers, Sequences, FiniteSets, TLC

(***************************************************************************)
(* Bounds of the model.                                                    *)
(***************************************************************************)
MaxBuilders == 1        \* builder instances created by from()
MaxOps      == 3        \* calls made on one builder (non-terminal and terminal)
MaxLimit    == 2        \* limit(n) is called with n in 0..MaxLimit
MaxSubs     == 1        \* onAuthStateChange registrations
MaxTicks    == 4        \* interval ticks fired per registration
MaxPolls    == 2        \* of them, beside the one-shot auth calls
MaxCalls    == 2        \* one-shot auth calls (getSession, signIn, ...) made

(***************************************************************************)
(* JavaScript values.  Every value is a record tagged by t; the tags keep  *)
(* values of different JavaScript types apart.                             *)
(***************************************************************************)
Undefined == [t |-> "undefined"]
Null      == [t |-> "null"]
Str(s)    == [t |-> "string", s |-> s]
Num(n)    == [t |-> "number", n |-> n]
Bool(b)   == [t |-> "boolean", b |-> b]
\* an object literal with its own properties in insertion order, as
\* res.json() builds it from the body text: a sequence of <<key, value>>
Obj(props) == [t |-> "object", props |-> props]
\* an array of rows
Arr(rows) == [t |-> "array", rows |-> rows]

\* o.k for a value o: undefined when o has no such property
RECURSIVE Lookup(_, _)
Lookup(props, k) ==
    IF props = <<>> THEN Undefined
    ELSE IF Head(props)[1] = k THEN Head(props)[2]
    ELSE Lookup(Tail(props), k)

Get(o, k) == IF o.t = "object" THEN Lookup(o.props, k) ELSE Undefined

\* o?.k : undefined when o is null or undefined
OptGet(o, k) == IF o.t \in {"null", "undefined"} THEN Undefined ELSE Get(o, k)

\* ToBoolean
Truthy(v) ==
    CASE v.t = "undefined" -> FALSE
      [] v.t = "null"      -> FALSE
      [] v.t = "string"    -> v.s # ""
      [] v.t = "number"    -> v.n # 0
      [] v.t = "boolean"   -> v.b
      [] OTHER             -> TRUE

\* a || b
Or(a, b) == IF Truthy(a) THEN a ELSE b
\* a ?? b
CoalesceFalsy(a, b) == IF Truthy(a) THEN a ELSE b
Coalesce(a, b) == IF a.t \in {"null", "undefined"} THEN b ELSE a

(***************************************************************************)
(* The users the server can report.  U2 and U2r are the same user with     *)
(* the properties in a different order in the response body.               *)
(***************************************************************************)
U1  == Obj(<< <<"id", Str("u1")>> >>)
U2  == Obj(<< <<"id", Str("u2")>>, <<"email", Str("e")>> >>)
U2r == Obj(<< <<"email", Str("e")>>, <<"id", Str("u2")>> >>)
Users == {U1, U2, U2r}

\* structural (deep) equality of two values: the same properties with
\* structurally equal values, whatever their order
Keys(o) == {o.props[i][1] : i \in 1..Len(o.props)}
RECURSIVE StructEq(_, _)
StructEq(a, b) ==
    IF a.t = "object" /\ b.t = "object"
    THEN /\ Keys(a) = Keys(b)
         /\ \A k \in Keys(a) : StructEq(Get(a, k), Get(b, k))
    ELSE a = b


(***************************************************************************)
(* String(v) and JSON.stringify(v), computed character by character.       *)
(***************************************************************************)
Digit(d) == CASE d = 0 -> "0" [] d = 1 -> "1" [] d = 2 -> "2" [] d = 3 -> "3"
              [] d = 4 -> "4" [] d = 5 -> "5" [] d = 6 -> "6" [] d = 7 -> "7"
              [] d = 8 -> "8" [] OTHER -> "9"

RECURSIVE Dec(_)
Dec(n) == IF n < 10 THEN Digit(n) ELSE Dec(n \div 10) \o Digit(n % 10)

\* String(v) of a number, a string, null or undefined
String(v) ==
    CASE v.t = "number"    -> IF v.n < 0 THEN "-" \o Dec(0 - v.n) ELSE Dec(v.n)
      [] v.t = "string"    -> v.s
      [] v.t = "null"      -> "null"
      [] v.t = "undefined" -> "undefined"
      [] OTHER             -> "[object Object]"

Quote(s) == "\"" \o s \o "\""

\* JSON.stringify: the properties in their own order, a property whose
\* value is undefined left out
RECURSIVE Stringify(_), StringifyProps(_, _), StringifyRows(_, _)
Stringify(v) ==
    CASE v.t = "null"   -> "null"
      [] v.t = "string" -> Quote(v.s)
      [] v.t = "number" -> String(v)
      [] v.t = "object" -> "{" \o StringifyProps(v.props, TRUE) \o "}"
      [] v.t = "array"  -> "[" \o StringifyRows(v.rows, TRUE) \o "]"
      [] OTHER          -> "undefined"
StringifyProps(props, first) ==
    IF props = <<>> THEN ""
    ELSE IF Head(props)[2].t = "undefined" THEN StringifyProps(Tail(props), first)
    ELSE (IF first THEN "" ELSE ",") \o Quote(Head(props)[1]) \o ":"
            \o Stringify(Head(props)[2]) \o StringifyProps(Tail(props), FALSE)
StringifyRows(rows, first) ==
    IF rows = <<>> THEN ""
    ELSE (IF first THEN "" ELSE ",") \o Stringify(Head(rows))
            \o StringifyRows(Tail(rows), FALSE)

(***************************************************************************)
(* The transport helper api().  A settled fetch is either a rejection (no  *)
(* response: the network failed, or the body did not parse) or a response  *)
(* with res.ok, the body as res.json() / res.text() returns it, and        *)
(* res.statusText.                                                         *)
(***************************************************************************)
Reject == [k |-> "reject"]
Response(ok, data, statusText) ==
    [k |-> "response", ok |-> ok, data |-> data, statusText |-> statusText]

\* what an awaited call gives its caller: a value, or a thrown exception
Throw == [k |-> "throw"]
Result(data, error) == [k |-> "result", data |-> data, error |-> error]

ApiErrorWholeBody(res) == Or(res.data, Str(res.statusText))
ApiErrorStatusFirst(res) ==
    Or(Str(res.statusText),
       IF Truthy(res.data) THEN Or(Get(res.data, "error"), res.data) ELSE res.data)
\* (data && (data.error || data)) || res.statusText
ApiError(res) ==
    Or(IF Truthy(res.data) THEN Or(Get(res.data, "error"), res.data) ELSE res.data,
       Str(res.statusText))

Api(res) ==
    IF res.k = "reject" THEN Throw
    ELSE IF ~res.ok THEN Result(Null, ApiError(res))
    ELSE Result(res.data, Null)


(***************************************************************************)
(* The state of the program.                                               *)
(***************************************************************************)
VARIABLES
    chain,      \* chain[b]: the closure state of builder b (made: from() ran)
    delSub,     \* delSub[b]: delete() has returned its sub-builder
    sent,       \* sent[b]: the requests run() of builder b handed to fetch
    calls,      \* calls[b]: the terminal calls made on b, each with the
                \*   closure state it ran on, the fetch it awaits and what
                \*   it resolved to
    nops,       \* calls made on the builders so far
    log,        \* log[b]: the calls made on builder b and on the object its
                \*   delete() returned, with their arguments, in order
    currentSession,   \* __currentSession
    subs,       \* subs[s]: registration s of onAuthStateChange: its timer,
                \*   its closure variable last, the ticks its timer fired
    inflight,   \* inflight[s]: the ticks of s whose fetch has not settled
    notes,      \* notes[s]: the invocations of callback s, in order
    seen,       \* seen[s]: the responses the ticks of s received, in order
    pend,       \* pend[c]: one-shot auth call c awaiting its fetch
    nfetch,     \* fetches the auth facade has issued
    hook,       \* the useAuthSession hook: its effect (idle, mounted,
                \*   unmounted), its user, session and loading state, the
                \*   registration and the getSession call its effect made
    ens,        \* ensureSession: where it stands, the requests it has sent
                \*   and the results it has received
    ev          \* the step just taken

qbVars   == <<chain, delSub, sent, calls, nops, log>>
authVars == <<currentSession, subs, inflight, notes, seen, pend, nfetch>>
appVars  == <<hook, ens>>
vars == <<chain, delSub, sent, calls, nops, log,
          currentSession, subs, inflight, notes, seen, pend, nfetch,
          hook, ens, ev>>

(***************************************************************************)
(* The query builder.                                                      *)
(***************************************************************************)
Builders == 1..MaxBuilders
Tables   == {"chats"}
Columns  == {"id", "user_id"}
FilterVals == {Num(7), Str("a")}
AscOpts  == {Undefined, Bool(TRUE), Bool(FALSE)}   \* opts?.ascending
Ranges   == {<<1, 3>>, <<0, 0>>}
Limits   == 0..MaxLimit
Payloads == {Obj(<< <<"title", Str("a")>> >>), Obj(<< <<"title", Str("b")>> >>)}

Order(column, ascending) ==
    [t |-> "order", column |-> column, ascending |-> ascending]
Range(from, to) == [t |-> "range", from |-> from, to |-> to]

\* the closure state a new builder starts with
InitialState ==
    [filters |-> <<>>, order |-> Null, range |-> Null, limit |-> Null,
     method |-> "GET", payload |-> Null]

Unmade == [made |-> FALSE, table |-> "", state |-> InitialState]

\* state.filters[column] = value: an own property keeps its place when it
\* is overwritten, a new one goes last
SetFilterAppends(filters, column, value) == Append(filters, <<column, value>>)
RECURSIVE SetFilter(_, _, _)
SetFilter(filters, column, value) ==
    IF filters = <<>> THEN << <<column, value>> >>
    ELSE IF Head(filters)[1] = column THEN << <<column, value>> >> \o Tail(filters)
    ELSE << Head(filters) >> \o SetFilter(Tail(filters), column, value)

Max(a, b) == IF a >= b THEN a ELSE b

Param(k, v) == [k |-> k, v |-> v]

RECURSIVE FilterParams(_)
FilterParams(filters) ==
    IF filters = <<>> THEN <<>>
    ELSE << Param("eq." \o Head(filters)[1], String(Head(filters)[2])) >>
            \o FilterParams(Tail(filters))

OrderParams(st) ==
    IF Truthy(st.order)
    THEN << Param("order", st.order.column \o "."
                    \o (IF st.order.ascending THEN "asc" ELSE "desc")) >>
    ELSE <<>>

PageParamsLimitFirst(st) ==
    IF st.limit # Null
    THEN << Param("from", "0"),
            Param("to", String(Num(Max(0, st.limit.n - 1)))) >>
    ELSE IF Truthy(st.range)
    THEN << Param("from", String(Num(st.range.from))),
            Param("to", String(Num(st.range.to))) >>
    ELSE <<>>
PageParams(st) ==
    IF Truthy(st.range)
    THEN << Param("from", String(Num(st.range.from))),
            Param("to", String(Num(st.range.to))) >>
    ELSE IF st.limit # Null
    THEN << Param("from", "0"),
            Param("to", String(Num(Max(0, st.limit.n - 1)))) >>
    ELSE <<>>

\* the parameters appended to the URLSearchParams, in order
BuildQS(st) == FilterParams(st.filters) \o OrderParams(st) \o PageParams(st)

\* the request run() hands to api(): fetch is called before run() returns
Request(method, path, params, body) ==
    [method |-> method, path |-> path, params |-> params, body |-> body]

RunSendsStoredPayload(table, st) ==
    Request(st.method, "/db/" \o table, BuildQS(st),
            IF st.payload = Null THEN Undefined ELSE Str(Stringify(st.payload)))
Run(table, st) ==
    CASE st.method = "POST" ->
            Request("POST", "/db/" \o table, BuildQS(st), Str(Stringify(st.payload)))
      [] st.method = "PATCH" ->
            Request("PATCH", "/db/" \o table, BuildQS(st), Str(Stringify(st.payload)))
      [] st.method = "DELETE" ->
            Request("DELETE", "/db/" \o table, BuildQS(st), Undefined)
      [] OTHER ->
            Request("GET", "/db/" \o table, BuildQS(st), Undefined)


Pending == [k |-> "pending"]
Caught  == [k |-> "caught"]      \* the rejection went to an onRejected handler

\* responses of the /db endpoints
Row1 == Obj(<< <<"id", Str("a")>> >>)
Row2 == Obj(<< <<"id", Str("b")>> >>)
DbResponses ==
    { Reject,
      Response(TRUE, Arr(<<>>), "OK"),
      Response(TRUE, Arr(<<Row2, Row1>>), "OK"),
      Response(TRUE, Row1, "OK"),
      Response(FALSE, Obj(<< <<"error", Str("denied")>> >>), "Forbidden") }

FirstRowKeepsRows(out) == out
\* single() and maybeSingle() after their await run()
FirstRow(out) ==
    IF out.k = "throw" THEN out
    ELSE IF Truthy(out.error) THEN out
    ELSE IF out.data.t = "array"
    THEN Result(Coalesce(IF Len(out.data.rows) > 0 THEN out.data.rows[1]
                         ELSE Undefined, Null), Null)
    ELSE out

\* what a terminal call resolves to once run() has settled with out
Resolve(via, out) ==
    CASE via \in {"single", "maybeSingle"} -> FirstRow(out)
      [] via = "catch" -> IF out.k = "throw" THEN Caught ELSE out
      [] OTHER -> out

\* a terminal call: the closure state it ran on, the fetch it awaits, its
\* place among the calls made on the builder, the response its fetch
\* settled with and what the call resolved to
Call(via, st, fetch, pos) ==
    [via |-> via, st |-> st, fetch |-> fetch, pos |-> pos,
     res |-> Pending, out |-> Pending]

\* a call as made: the method and its arguments (col: the column, val: the
\* value, option, count or payload passed, from and to: the bounds)
Made(op, col, val, from, to) ==
    [op |-> op, col |-> col, val |-> val, from |-> from, to |-> to]
NoArgs(op) == Made(op, "", Undefined, 0, 0)

\* every chained call: the builder exists and the call budget is not spent
CanCall(b) == chain[b].made /\ nops < MaxOps

\* a non-terminal call: the closure state becomes st, the builder is returned
ChainedShared(made, b, st) ==
    /\ chain' = [c \in DOMAIN chain |-> [chain[c] EXCEPT !.state = st]]
    /\ nops' = nops + 1
    /\ log' = [log EXCEPT ![b] = Append(@, made)]
    /\ UNCHANGED <<delSub, sent, calls, ev>>
    /\ UNCHANGED <<authVars, appVars>>
Chained(made, b, st) ==
    /\ chain' = [chain EXCEPT ![b].state = st]
    /\ nops' = nops + 1
    /\ log' = [log EXCEPT ![b] = Append(@, made)]
    /\ UNCHANGED <<delSub, sent, calls, ev>>
    /\ UNCHANGED <<authVars, appVars>>

\* a terminal call: run() builds the request from the state as it is now
\* and sends it
Terminal(via, b) ==
    /\ sent' = [sent EXCEPT ![b] = Append(@, Run(chain[b].table, chain[b].state))]
    /\ calls' = [calls EXCEPT ![b] =
                    Append(@, Call(via, chain[b].state, Len(sent[b]) + 1, Len(log[b]) + 1))]
    /\ nops' = nops + 1
    /\ log' = [log EXCEPT ![b] = Append(@, NoArgs(via))]
    /\ UNCHANGED <<chain, delSub, ev>>
    /\ UNCHANGED <<authVars, appVars>>

From(b, table) ==
    /\ ~chain[b].made
    /\ \A c \in Builders : c < b => chain[c].made
    /\ chain' = [chain EXCEPT ![b] = [made |-> TRUE, table |-> table, state |-> InitialState]]
    /\ UNCHANGED <<delSub, sent, calls, nops, log, ev>>
    /\ UNCHANGED <<authVars, appVars>>

SelectRuns(b) == CanCall(b) /\ Terminal("select", b)
Select(b) ==
    /\ CanCall(b)
    /\ Chained(NoArgs("select"), b, chain[b].state)

OrderBy(b, column, asc) ==
    /\ CanCall(b)
    /\ Chained(Made("order", column, asc, 0, 0), b,
               [chain[b].state EXCEPT !.order = Order(column, Coalesce(asc, Bool(TRUE)).b)])

SetRange(b, from, to) ==
    /\ CanCall(b)
    /\ Chained(Made("range", "", Undefined, from, to), b, [chain[b].state EXCEPT !.range = Range(from, to)])

Limit(b, n) ==
    /\ CanCall(b)
    /\ Chained(Made("limit", "", Num(n), 0, 0), b, [chain[b].state EXCEPT !.limit = Num(n)])

Eq(b, column, value) ==
    /\ CanCall(b)
    /\ Chained(Made("eq", column, value, 0, 0), b,
               [chain[b].state EXCEPT !.filters = SetFilter(@, column, value)])

Insert(b, payload) ==
    /\ CanCall(b)
    /\ Chained(Made("insert", "", payload, 0, 0), b,
               [chain[b].state EXCEPT !.method = "POST", !.payload = payload])

Update(b, payload) ==
    /\ CanCall(b)
    /\ Chained(Made("update", "", payload, 0, 0), b,
               [chain[b].state EXCEPT !.method = "PATCH", !.payload = payload])

\* delete() returns the object { eq }, not the builder
Delete(b) ==
    /\ CanCall(b)
    /\ chain' = [chain EXCEPT ![b].state.method = "DELETE"]
    /\ delSub' = [delSub EXCEPT ![b] = TRUE]
    /\ nops' = nops + 1
    /\ log' = [log EXCEPT ![b] = Append(@, NoArgs("delete"))]
    /\ UNCHANGED <<sent, calls, ev>>
    /\ UNCHANGED <<authVars, appVars>>

\* eq of the object delete() returned: sets the filter and runs
DeleteEq(b, column, value) ==
    /\ CanCall(b)
    /\ delSub[b]
    /\ LET st == [chain[b].state EXCEPT !.filters = SetFilter(@, column, value)]
       IN  /\ chain' = [chain EXCEPT ![b].state = st]
           /\ sent' = [sent EXCEPT ![b] = Append(@, Run(chain[b].table, st))]
           /\ calls' = [calls EXCEPT ![b] =
                           Append(@, Call("delete.eq", st, Len(sent[b]) + 1, Len(log[b]) + 1))]
    /\ nops' = nops + 1
    /\ log' = [log EXCEPT ![b] = Append(@, Made("delete.eq", column, value, 0, 0))]
    /\ UNCHANGED <<delSub, ev>>
    /\ UNCHANGED <<authVars, appVars>>

Single(b)      == CanCall(b) /\ Terminal("single", b)
MaybeSingle(b) == CanCall(b) /\ Terminal("maybeSingle", b)
Then(b)        == CanCall(b) /\ Terminal("then", b)
Catch(b)       == CanCall(b) /\ Terminal("catch", b)
Finally(b)     == CanCall(b) /\ Terminal("finally", b)

\* fetch k of builder b settles with response r: every call awaiting it
\* resumes
SettleDb(b, k, r) ==
    /\ \E i \in 1..Len(calls[b]) : calls[b][i].fetch = k /\ calls[b][i].out = Pending
    /\ LET cs == calls[b]
       IN  calls' = [calls EXCEPT ![b] =
                       [i \in 1..Len(cs) |->
                           IF cs[i].fetch = k /\ cs[i].out = Pending
                           THEN [cs[i] EXCEPT !.res = r,
                                              !.out = Resolve(cs[i].via, Api(r))]
                           ELSE cs[i]]]
    /\ UNCHANGED <<chain, delSub, sent, nops, log, ev>>
    /\ UNCHANGED <<authVars, appVars>>

\* at: the cache as it was when the registration was made
NoSub == [status |-> "none", last |-> "", ticks |-> 0, at |-> Null]

NoEvent == [op |-> "init", phase |-> "init"]

\* useState(null), useState(null), useState(true); the effect has not run
NoHook ==
    [effect |-> "idle", user |-> Null, session |-> Null, loading |-> TRUE,
     sub |-> 0, call |-> 0]

\* ensureSession has not been called
NoEnsure == [pc |-> "idle", reqs |-> <<>>, outs |-> <<>>]

InitAppVars ==
    /\ hook = NoHook
    /\ ens = NoEnsure

\* the auth facade before any call
InitAuthVars ==
    /\ currentSession = Null
    /\ subs = [s \in 1..MaxSubs |-> NoSub]
    /\ inflight = [s \in 1..MaxSubs |-> {}]
    /\ notes = [s \in 1..MaxSubs |-> <<>>]
    /\ seen = [s \in 1..MaxSubs |-> <<>>]
    /\ pend = [c \in 1..MaxCalls |-> [op |-> "free"]]
    /\ nfetch = 0

\* the builders before any from()
InitQBVars ==
    /\ chain = [b \in Builders |-> Unmade]
    /\ delSub = [b \in Builders |-> FALSE]
    /\ calls = [b \in Builders |-> <<>>]
    /\ sent = [b \in Builders |-> <<>>]
    /\ nops = 0
    /\ log = [b \in Builders |-> <<>>]

InitQB ==
    /\ InitQBVars
    /\ InitAuthVars
    /\ InitAppVars
    /\ ev = NoEvent

NextQB ==
    \E b \in Builders :
        \/ \E table \in Tables : From(b, table)
        \/ Select(b)
        \/ \E column \in Columns, asc \in AscOpts : OrderBy(b, column, asc)
        \/ \E r \in Ranges : SetRange(b, r[1], r[2])
        \/ \E n \in Limits : Limit(b, n)
        \/ \E column \in Columns, value \in FilterVals : Eq(b, column, value)
        \/ \E payload \in Payloads : Insert(b, payload)
        \/ \E payload \in Payloads : Update(b, payload)
        \/ Delete(b)
        \/ \E column \in Columns, value \in FilterVals : DeleteEq(b, column, value)
        \/ Single(b)
        \/ MaybeSingle(b)
        \/ Then(b)
        \/ Catch(b)
        \/ Finally(b)
        \/ \E k \in 1..Len(sent[b]), r \in DbResponses : SettleDb(b, k, r)

SpecQB == InitQB /\ [][NextQB]_vars

\* two builders made by two from() calls, on the same table or on two
BuilderPair == {1, 2}
PairTables  == {"chats", "messages"}

InitBuilders ==
    /\ chain = [b \in BuilderPair |-> Unmade]
    /\ delSub = [b \in BuilderPair |-> FALSE]
    /\ calls = [b \in BuilderPair |-> <<>>]
    /\ sent = [b \in BuilderPair |-> <<>>]
    /\ nops = 0
    /\ log = [b \in BuilderPair |-> <<>>]
    /\ InitAuthVars
    /\ InitAppVars
    /\ ev = NoEvent

\* the arguments and responses the two builders are exercised with
PairColumns   == {"id"}
PairAscOpts   == {Undefined, Bool(FALSE)}
PairRanges    == {<<1, 3>>}
PairPayloads  == {Obj(<< <<"title", Str("a")>> >>)}
PairResponses == {Reject, Response(TRUE, Arr(<<Row2, Row1>>), "OK")}

NextBuilders ==
    \E b \in BuilderPair :
        \/ \E table \in PairTables : From(b, table)
        \/ Select(b)
        \/ \E column \in PairColumns, asc \in PairAscOpts : OrderBy(b, column, asc)
        \/ \E r \in PairRanges : SetRange(b, r[1], r[2])
        \/ Limit(b, MaxLimit)
        \/ \E column \in PairColumns, value \in FilterVals : Eq(b, column, value)
        \/ \E payload \in PairPayloads : Insert(b, payload)
        \/ \E payload \in PairPayloads : Update(b, payload)
        \/ Delete(b)
        \/ \E column \in PairColumns, value \in FilterVals : DeleteEq(b, column, value)
        \/ Single(b)
        \/ MaybeSingle(b)
        \/ Then(b)
        \/ Catch(b)
        \/ Finally(b)
        \/ \E k \in 1..Len(sent[b]), r \in PairResponses : SettleDb(b, k, r)

SpecBuilders == InitBuilders /\ [][NextBuilders]_vars


(***************************************************************************)
(* The auth facade.                                                        *)
(***************************************************************************)
Subs    == 1..MaxSubs
CallIds == 1..MaxCalls

Session(user) == Obj(<< <<"user", user>> >>)

Body(k, v) == Obj(<< <<k, v>> >>)

\* what a tick's fetch of /auth/session can settle with
PollResponses ==
    { Reject,
      Response(TRUE, Body("user", Null), "OK"),
      Response(TRUE, Body("user", U1), "OK"),
      Response(TRUE, Body("user", U2), "OK"),
      Response(TRUE, Body("user", U2r), "OK"),
      Response(FALSE, Body("error", Str("server error")), "Internal Server Error") }

\* what the fetch of a one-shot auth call can settle with
AuthResponses ==
    PollResponses \cup
    { Response(TRUE, Obj(<<>>), "OK"),
      Response(TRUE, Null, "OK"),
      Response(FALSE, Body("error", Str("invalid credentials")), "Unauthorized"),
      Response(FALSE, Body("error", Str("")), "Bad Request"),
      Response(FALSE, Str("oops"), "Bad Gateway"),
      Response(FALSE, Str(""), "Unauthorized"),
      Response(FALSE, Str(""), "") }

\* data?.user ? { user: data.user } : null
SessionOf(data) ==
    IF Truthy(OptGet(data, "user")) THEN Session(Get(data, "user")) ELSE Null

\* (res.data as any).user : a TypeError when res.data is null or undefined
CanReadUser(data) == data.t \notin {"null", "undefined"}

\* what each one-shot call does once its api() call has settled with out:
\* the value it returns (or Throw) and the cached session it leaves
GetUserReturn(out) ==
    IF out.k = "throw" THEN Throw
    ELSE Result(Body("user", Coalesce(OptGet(out.data, "user"), Null)), out.error)
GetUserCache(out, cur) == cur

GetSessionReturn(out) ==
    IF out.k = "throw" THEN Throw
    ELSE Result(Body("session", SessionOf(out.data)), out.error)
GetSessionCacheStale(out, cur) == cur
GetSessionCache(out, cur) ==
    IF out.k = "throw" THEN cur ELSE SessionOf(out.data)

SignInReturn(out) ==
    IF out.k = "throw" THEN Throw
    ELSE IF Truthy(out.error) THEN Result(Null, out.error)
    ELSE IF ~CanReadUser(out.data) THEN Throw
    ELSE Result(Body("user", Get(out.data, "user")), Null)
SignInCacheStale(out, cur) == cur
SignInCache(out, cur) ==
    IF out.k = "throw" THEN cur
    ELSE IF Truthy(out.error) THEN cur
    ELSE IF ~CanReadUser(out.data) THEN cur
    ELSE Session(Get(out.data, "user"))

SignUpReturn(out) ==
    IF out.k = "throw" THEN Throw
    ELSE IF Truthy(out.error) THEN Result(Null, out.error)
    ELSE IF ~CanReadUser(out.data) THEN Throw
    ELSE Result(Body("user", Get(out.data, "user")), Null)
SignUpCache(out, cur) == cur

\* signOut returns { error } alone
ErrorOnly(error) == [k |-> "result", error |-> error]
SignOutReturn(out) ==
    IF out.k = "throw" THEN Throw
    ELSE IF Truthy(out.error) THEN ErrorOnly(out.error)
    ELSE ErrorOnly(Null)
SignOutCacheRollsBack(out, cur) ==
    IF out.k = "throw" \/ Truthy(out.error) THEN cur ELSE Null
SignOutCache(out, cur) == IF out.k = "throw" THEN cur ELSE Null

\* functions.invoke and rpc: { data: null, error } when res.error is truthy,
\* { data: res.data, error: null } otherwise
InvokeReturn(out) ==
    IF out.k = "throw" THEN Throw
    ELSE IF Truthy(out.error) THEN Result(Null, out.error)
    ELSE Result(out.data, Null)
RpcReturn(out) ==
    IF out.k = "throw" THEN Throw
    ELSE IF Truthy(out.error) THEN Result(Null, out.error)
    ELSE Result(out.data, Null)

\* the hook's callback of onAuthStateChange, invoked for registration s
\* with nextSession
HookNotifiedUnmounted(h, s, nextSession) ==
    IF h.sub # s THEN h
    ELSE [h EXCEPT !.session = nextSession,
                   !.user = Coalesce(OptGet(nextSession, "user"), Null)]
HookNotified(h, s, nextSession) ==
    IF h.sub # s \/ h.effect # "mounted" THEN h
    ELSE [h EXCEPT !.session = nextSession,
                   !.user = Coalesce(OptGet(nextSession, "user"), Null)]

\* the hook's .then((res) => ...) on the getSession call c, which returned
\* ret: a rejected promise skips the handler
HookThen(h, c, ret) ==
    IF h.call # c \/ ret.k = "throw" \/ h.effect # "mounted" THEN h
    ELSE LET next == Coalesce(OptGet(ret.data, "session"), Null)
         IN  [h EXCEPT !.session = next,
                       !.user = Coalesce(OptGet(next, "user"), Null),
                       !.loading = FALSE]

OneShots == {"getUser", "getSession", "signInWithPassword", "signUp", "signOut"}
Invocations == {"invoke", "rpc"}

\* the request each one-shot call hands to api()
Credentials == Obj(<< <<"email", Str("dev@example.com")>>, <<"password", Str("pw")>> >>)
AuthRequest(op) ==
    CASE op = "signInWithPassword" ->
            Request("POST", "/auth/signin", <<>>, Str(Stringify(Credentials)))
      [] op = "signUp" ->
            Request("POST", "/auth/signup", <<>>, Str(Stringify(Credentials)))
      [] op = "signOut" -> Request("POST", "/auth/signout", <<>>, Undefined)
      [] OTHER -> Request("GET", "/auth/session", <<>>, Undefined)

ReturnOf(op, out) ==
    CASE op = "getUser" -> GetUserReturn(out)
      [] op = "getSession" -> GetSessionReturn(out)
      [] op = "signInWithPassword" -> SignInReturn(out)
      [] op = "signUp" -> SignUpReturn(out)
      [] op = "invoke" -> InvokeReturn(out)
      [] op = "rpc" -> RpcReturn(out)
      [] OTHER -> SignOutReturn(out)

CacheAfter(op, out, cur) ==
    CASE op = "getUser" -> GetUserCache(out, cur)
      [] op = "getSession" -> GetSessionCache(out, cur)
      [] op = "signInWithPassword" -> SignInCache(out, cur)
      [] op = "signUp" -> SignUpCache(out, cur)
      [] op \in Invocations -> cur
      [] OTHER -> SignOutCache(out, cur)

\* a one-shot call up to its await: api() has called fetch
CallOp(c, op) ==
    /\ \A d \in CallIds : d < c => pend[d].op # "free"
    /\ pend' = [pend EXCEPT ![c] = [op |-> op, req |-> AuthRequest(op)]]
    /\ nfetch' = nfetch + 1
    /\ ev' = [op |-> op, phase |-> "call", c |-> c]
    /\ UNCHANGED <<currentSession, subs, inflight, notes, seen>>
    /\ UNCHANGED <<qbVars, appVars>>

GetUser(c)            == pend[c].op = "free" /\ CallOp(c, "getUser")
GetSession(c)         == pend[c].op = "free" /\ CallOp(c, "getSession")
SignInWithPassword(c) == pend[c].op = "free" /\ CallOp(c, "signInWithPassword")
SignUp(c)             == pend[c].op = "free" /\ CallOp(c, "signUp")
SignOut(c)            == pend[c].op = "free" /\ CallOp(c, "signOut")

\* the fetch of one-shot call c settles with r and the call runs to its end
Return(c, r) ==
    /\ pend[c].op \in OneShots \cup Invocations
    /\ LET op == pend[c].op
           out == Api(r)
       IN  /\ currentSession' = CacheAfter(op, out, currentSession)
           /\ hook' = HookThen(hook, c, ReturnOf(op, out))
           /\ ev' = [op |-> op, phase |-> "return", c |-> c, res |-> r,
                     ret |-> ReturnOf(op, out), pre |-> currentSession]
    /\ pend' = [pend EXCEPT ![c] = [op |-> "done"]]
    /\ UNCHANGED <<subs, inflight, notes, seen, nfetch>>
    /\ UNCHANGED <<qbVars, ens>>

\* functions.invoke(name, { body }) and rpc(fn, params) up to their await:
\* the body sent is JSON.stringify(arg || {})
Names == {"ocr"}
Args  == {Undefined, Obj(<< <<"q", Str("a")>> >>)}

Invoked(c, op, path, arg) ==
    /\ \A d \in CallIds : d < c => pend[d].op # "free"
    /\ pend' = [pend EXCEPT ![c] =
                  [op |-> op,
                   req |-> Request("POST", path, <<>>, Str(Stringify(Or(arg, Obj(<<>>)))))]]
    /\ ev' = [op |-> op, phase |-> "call", c |-> c]
    /\ UNCHANGED <<currentSession, subs, inflight, notes, seen, nfetch>>
    /\ UNCHANGED <<qbVars, appVars>>

Invoke(c, name, body) ==
    pend[c].op = "free" /\ Invoked(c, "invoke", "/functions/" \o name, body)
Rpc(c, fn, params) ==
    pend[c].op = "free" /\ Invoked(c, "rpc", "/rpc/" \o fn, params)

\* what the fetch of an invoke or rpc call can settle with
RpcResponses ==
    { Reject,
      Response(TRUE, Obj(<< <<"text", Str("a")>> >>), "OK"),
      Response(TRUE, Arr(<<Row1>>), "OK"),
      Response(TRUE, Null, "OK"),
      Response(TRUE, Str(""), "OK"),
      Response(FALSE, Body("error", Str("no such function")), "Not Found"),
      Response(FALSE, Str("oops"), "Bad Gateway"),
      Response(FALSE, Str(""), "Internal Server Error"),
      Response(FALSE, Str(""), "") }

\* invoke and rpc alone
NextRpc ==
    \E c \in CallIds :
        \/ \E name \in Names, body \in Args : Invoke(c, name, body)
        \/ \E fn \in Names, params \in Args : Rpc(c, fn, params)
        \/ \E r \in RpcResponses : Return(c, r)

\* the transport helper called on its own (as storage.upload does): the
\* call up to its await of fetch, and the stretch after the fetch settled
\* with r, which returns Api(r) to the caller
ApiCall(c) ==
    /\ pend[c].op = "free"
    /\ \A d \in CallIds : d < c => pend[d].op # "free"
    /\ pend' = [pend EXCEPT ![c] =
                  [op |-> "api",
                   req |-> Request("POST", "/storage/files/upload", <<>>, Undefined)]]
    /\ ev' = [op |-> "api", phase |-> "call", c |-> c]
    /\ UNCHANGED <<currentSession, subs, inflight, notes, seen, nfetch>>
    /\ UNCHANGED <<qbVars, appVars>>

ApiReturn(c, r) ==
    /\ pend[c].op = "api"
    /\ pend' = [pend EXCEPT ![c] = [op |-> "done"]]
    /\ ev' = [op |-> "api", phase |-> "return", c |-> c, res |-> r,
              ret |-> Api(r), pre |-> currentSession]
    /\ UNCHANGED <<currentSession, subs, inflight, notes, seen, nfetch>>
    /\ UNCHANGED <<qbVars, appVars>>

\* the bodies res.json() / res.text() can give and the status texts
Bodies ==
    { Null, Str(""), Str("oops"), Num(0), Obj(<<>>), Arr(<<>>), Arr(<<Row1>>),
      Body("error", Str("denied")), Body("error", Str("")), Body("error", Null),
      Body("error", Body("message", Str("denied"))),
      Body("message", Str("denied")),
      Obj(<< <<"error", Str("denied")>>, <<"code", Num(7)>> >>) }
StatusTexts == {"", "OK", "Not Found", "Internal Server Error"}
ApiResponses ==
    {Reject} \cup
    {Response(ok, data, text) : ok \in BOOLEAN, data \in Bodies, text \in StatusTexts}

NextApi ==
    \E c \in CallIds :
        \/ ApiCall(c)
        \/ \E r \in ApiResponses : ApiReturn(c, r)

\* onAuthStateChange(callback): last is taken from the cache, the timer starts
OnAuthStateChange(s) ==
    /\ subs[s].status = "none"
    /\ \A q \in Subs : q < s => subs[q].status # "none"
    /\ subs' = [subs EXCEPT ![s] =
                  [status |-> "active",
                   last |-> Stringify(Or(currentSession, Null)),
                   ticks |-> 0,
                   at |-> currentSession]]
    /\ ev' = [op |-> "onAuthStateChange", phase |-> "call", s |-> s]
    /\ UNCHANGED <<currentSession, inflight, notes, seen, pend, nfetch>>
    /\ UNCHANGED <<qbVars, appVars>>

\* the interval fires: the callback runs up to its await of api()
Tick(s) ==
    /\ subs[s].status = "active"
    /\ subs[s].ticks < MaxTicks
    /\ subs' = [subs EXCEPT ![s].ticks = @ + 1]
    /\ inflight' = [inflight EXCEPT ![s] = @ \cup {subs[s].ticks + 1}]
    /\ nfetch' = nfetch + 1
    /\ ev' = [op |-> "tick", phase |-> "fire", s |-> s]
    /\ UNCHANGED <<currentSession, notes, seen, pend>>
    /\ UNCHANGED <<qbVars, appVars>>

NoteStale(event, session) == [event |-> event, session |-> currentSession]
Note(event, session) == [event |-> event, session |-> session]

\* the change test of a tick: nextStr !== last
ChangedAlways(nextStr, last) == TRUE
ChangedFromCache(nextStr, last) == nextStr # Stringify(Or(currentSession, Null))
Changed(nextStr, last) == nextStr # last

TickSettleKeepsLast(s, k, r) ==
    /\ k \in inflight[s]
    /\ inflight' = [inflight EXCEPT ![s] = @ \ {k}]
    /\ LET out == Api(r)
           next == SessionOf(out.data)
           nextStr == Stringify(next)
       IN  IF out.k = "throw"
           THEN UNCHANGED <<currentSession, subs, notes, seen, hook>>
           ELSE /\ seen' = [seen EXCEPT ![s] = Append(@, r)]
                /\ IF Changed(nextStr, subs[s].last)
                   THEN /\ currentSession' = next
                        /\ notes' = [notes EXCEPT ![s] =
                               Append(@, Note(IF Truthy(next) THEN "SIGNED_IN"
                                              ELSE "SIGNED_OUT", next))]
                        /\ hook' = HookNotified(hook, s, next)
                        /\ UNCHANGED subs
                   ELSE UNCHANGED <<currentSession, subs, notes, hook>>
    /\ ev' = [op |-> "tick", phase |-> "settle", s |-> s, res |-> r]
    /\ UNCHANGED <<pend, nfetch>>
    /\ UNCHANGED <<qbVars, ens>>

\* the fetch of tick k of s settles with r and the interval callback runs on
TickSettle(s, k, r) ==
    /\ k \in inflight[s]
    /\ inflight' = [inflight EXCEPT ![s] = @ \ {k}]
    /\ LET out == Api(r)
           next == SessionOf(out.data)
           nextStr == Stringify(next)
       IN  IF out.k = "throw"
           THEN UNCHANGED <<currentSession, subs, notes, seen, hook>>
           ELSE /\ seen' = [seen EXCEPT ![s] = Append(@, r)]
                /\ IF Changed(nextStr, subs[s].last)
                   THEN /\ subs' = [subs EXCEPT ![s].last = nextStr]
                        /\ currentSession' = next
                        /\ notes' = [notes EXCEPT ![s] =
                               Append(@, Note(IF Truthy(next) THEN "SIGNED_IN"
                                              ELSE "SIGNED_OUT", next))]
                        /\ hook' = HookNotified(hook, s, next)
                   ELSE UNCHANGED <<currentSession, subs, notes, hook>>
    /\ ev' = [op |-> "tick", phase |-> "settle", s |-> s, res |-> r]
    /\ UNCHANGED <<pend, nfetch>>
    /\ UNCHANGED <<qbVars, ens>>

\* subscription.unsubscribe(): clearInterval(timer), which ignores an id
\* that is not an active timer and returns undefined (was: the timer as the
\* call found it)
UnsubscribeShared(s) ==
    /\ subs[s].status # "none"
    /\ subs' = [q \in DOMAIN subs |->
                  IF subs[q].status = "none" THEN subs[q]
                  ELSE [subs[q] EXCEPT !.status = "cleared"]]
    /\ ev' = [op |-> "unsubscribe", phase |-> "call", s |-> s,
              was |-> subs[s].status, ret |-> Undefined]
    /\ UNCHANGED <<currentSession, inflight, notes, seen, pend, nfetch>>
    /\ UNCHANGED <<qbVars, appVars>>
Unsubscribe(s) ==
    /\ subs[s].status # "none"
    /\ subs' = [subs EXCEPT ![s].status = "cleared"]
    /\ ev' = [op |-> "unsubscribe", phase |-> "call", s |-> s,
              was |-> subs[s].status, ret |-> Undefined]
    /\ UNCHANGED <<currentSession, inflight, notes, seen, pend, nfetch>>
    /\ UNCHANGED <<qbVars, appVars>>

\* the effect of useAuthSession runs: mounted = true, the callback is
\* registered as s and getSession is called as c, in one stretch
Mount(s, c) ==
    /\ hook.effect = "idle"
    /\ subs[s].status = "none"
    /\ \A q \in Subs : q < s => subs[q].status # "none"
    /\ pend[c].op = "free"
    /\ \A d \in CallIds : d < c => pend[d].op # "free"
    /\ subs' = [subs EXCEPT ![s] =
                  [status |-> "active",
                   last |-> Stringify(Or(currentSession, Null)),
                   ticks |-> 0,
                   at |-> currentSession]]
    /\ pend' = [pend EXCEPT ![c] =
                  [op |-> "getSession", req |-> AuthRequest("getSession")]]
    /\ nfetch' = nfetch + 1
    /\ hook' = [hook EXCEPT !.effect = "mounted", !.sub = s, !.call = c]
    /\ ev' = [op |-> "mount", phase |-> "call", s |-> s, c |-> c]
    /\ UNCHANGED <<currentSession, inflight, notes, seen, ens>>
    /\ UNCHANGED qbVars

\* the cleanup of the effect: mounted = false, then unsubscribe
Unmount ==
    /\ hook.effect = "mounted"
    /\ hook' = [hook EXCEPT !.effect = "unmounted"]
    /\ subs' = [subs EXCEPT ![hook.sub].status = "cleared"]
    /\ ev' = [op |-> "unmount", phase |-> "call", s |-> hook.sub]
    /\ UNCHANGED <<currentSession, inflight, notes, seen, pend, nfetch, ens>>
    /\ UNCHANGED qbVars


(***************************************************************************)
(* The polled session alone: registrations, their ticks and the responses  *)
(* the ticks receive.  The cache starts with a value an earlier getSession *)
(* or signInWithPassword can have left.                                    *)
(***************************************************************************)
EarlierCaches == {Null, Session(U1), Session(Undefined)}

InitPoll ==
    /\ InitQBVars
    /\ currentSession \in EarlierCaches
    /\ subs = [s \in Subs |-> NoSub]
    /\ inflight = [s \in Subs |-> {}]
    /\ notes = [s \in Subs |-> <<>>]
    /\ seen = [s \in Subs |-> <<>>]
    /\ pend = [c \in CallIds |-> [op |-> "free"]]
    /\ nfetch = 0
    /\ InitAppVars
    /\ ev = NoEvent

NextPoll ==
    \E s \in Subs :
        \/ OnAuthStateChange(s)
        \/ Tick(s)
        \/ \E k \in inflight[s], r \in PollResponses : TickSettle(s, k, r)
        \/ Unsubscribe(s)

SpecPoll == InitPoll /\ [][NextPoll]_vars

(***************************************************************************)
(* Two registrations of onAuthStateChange side by side, each with its own  *)
(* timer and its own closure variable last, sharing the cache.             *)
(***************************************************************************)
Pair == {1, 2}

\* a tick of the timer, as far as the specifications below follow the polling
Poll(s) == subs[s].ticks < MaxPolls /\ Tick(s)

InitPair ==
    /\ InitQBVars
    /\ currentSession = Null
    /\ subs = [s \in Pair |-> NoSub]
    /\ inflight = [s \in Pair |-> {}]
    /\ notes = [s \in Pair |-> <<>>]
    /\ seen = [s \in Pair |-> <<>>]
    /\ pend = [c \in CallIds |-> [op |-> "free"]]
    /\ nfetch = 0
    /\ InitAppVars
    /\ ev = NoEvent

NextPair ==
    \E s \in Pair :
        \/ OnAuthStateChange(s)
        \/ Poll(s)
        \/ \E k \in inflight[s], r \in PollResponses : TickSettle(s, k, r)
        \/ Unsubscribe(s)

SpecPair == InitPair /\ [][NextPair]_vars


(***************************************************************************)
(* The auth facade as a whole: the one-shot calls together with the        *)
(* polled session.                                                         *)
(***************************************************************************)
Init ==
    /\ InitQBVars
    /\ InitAuthVars
    /\ InitAppVars
    /\ ev = NoEvent

Next ==
    \/ \E c \in CallIds :
        \/ GetUser(c)
        \/ GetSession(c)
        \/ SignInWithPassword(c)
        \/ SignUp(c)
        \/ SignOut(c)
        \/ \E r \in AuthResponses : Return(c, r)
    \/ \E s \in Subs :
        \/ OnAuthStateChange(s)
        \/ Poll(s)
        \/ \E k \in inflight[s], r \in PollResponses : TickSettle(s, k, r)
        \/ Unsubscribe(s)

Spec == Init /\ [][Next]_vars

(***************************************************************************)
(* Signing in and out while a subscriber polls, with a server that keeps   *)
(* answering.  The server's session is the one the facade's one-shot calls *)
(* last established: every poll is answered 200 with that session's user.  *)
(***************************************************************************)
Reports ==
    Response(TRUE, Body("user", Coalesce(OptGet(currentSession, "user"), Null)), "OK")

\* what the server answers a one-shot call with
LiveOutcomes(op) ==
    CASE op = "signInWithPassword" ->
            { Reject,
              Response(TRUE, Body("user", U1), "OK"),
              Response(FALSE, Body("error", Str("invalid credentials")), "Unauthorized") }
      [] op = "getSession" ->
            { Reject,
              Response(TRUE, Body("user", U1), "OK"),
              Response(TRUE, Body("user", Null), "OK") }
      [] OTHER -> { Reject, Response(TRUE, Obj(<<>>), "OK") }

InitLive ==
    /\ InitQBVars
    /\ currentSession \in {Null, Session(U1)}
    /\ subs = [s \in Subs |-> NoSub]
    /\ inflight = [s \in Subs |-> {}]
    /\ notes = [s \in Subs |-> <<>>]
    /\ seen = [s \in Subs |-> <<>>]
    /\ pend = [c \in CallIds |-> [op |-> "free"]]
    /\ nfetch = 0
    /\ InitAppVars
    /\ ev = NoEvent

\* a tick's fetch is answered by the server
Polled(s) == \E k \in inflight[s] : TickSettle(s, k, Reports)

NextLive ==
    \/ \E c \in CallIds :
        \/ GetSession(c)
        \/ SignInWithPassword(c)
        \/ SignOut(c)
        \/ \E r \in LiveOutcomes(pend[c].op) : Return(c, r)
    \/ \E s \in Subs :
        \/ OnAuthStateChange(s)
        \/ Poll(s)
        \/ Polled(s)

\* setInterval keeps firing the callback and every fetch of a tick settles
SpecLive ==
    /\ InitLive
    /\ [][NextLive]_vars
    /\ \A s \in Subs : WF_vars(Poll(s)) /\ WF_vars(Polled(s))

SpecRpc == Init /\ [][NextRpc]_vars

(***************************************************************************)
(* ensureSession over the local client.                                    *)
(***************************************************************************)
\* what a fetch of the local client settles with: a rejection, or a
\* response whose r.json() gives the body (the status is not looked at)
EnsureResponses ==
    { Reject,
      Response(TRUE, Body("user", U1), "OK"),
      Response(TRUE, Body("user", Null), "OK"),
      Response(TRUE, Obj(<<>>), "OK"),
      Response(TRUE, Null, "OK"),
      Response(FALSE, Body("error", Str("exists")), "Conflict"),
      Response(FALSE, Body("error", Str("invalid credentials")), "Unauthorized") }

FetchError == Body("message", Str("Failed to fetch"))

\* wrap(p): { data: null, error: j } when j?.error is truthy, { data: j,
\* error: null } otherwise, { data: null, error: e } when p rejects
Wrap(r) ==
    IF r.k = "reject" THEN Result(Null, FetchError)
    ELSE IF Truthy(OptGet(r.data, "error")) THEN Result(Null, r.data)
    ELSE Result(r.data, Null)

DevCredentials ==
    Obj(<< <<"email", Str("dev@example.com")>>, <<"password", Str("devdev123")>> >>)

\* run(url, method, body) of api.auth.session, signup and signin
SessionRequest == Request("GET", "/auth/session", <<>>, Undefined)
SignupRequest  == Request("POST", "/auth/signup", <<>>, Str(Stringify(DevCredentials)))
SigninRequest  == Request("POST", "/auth/signin", <<>>, Str(Stringify(DevCredentials)))

\* ensureSession() up to its first await
EnsureSession ==
    /\ ens.pc = "idle"
    /\ ens' = [ens EXCEPT !.pc = "session", !.reqs = <<SessionRequest>>]
    /\ UNCHANGED <<qbVars, authVars, hook, ev>>

\* the session fetch settled: return when data?.user, else send the signup
SessionSettled(r) ==
    /\ ens.pc = "session"
    /\ LET out == Wrap(r)
       IN  IF Truthy(OptGet(out.data, "user"))
           THEN ens' = [ens EXCEPT !.pc = "done", !.outs = Append(@, out)]
           ELSE ens' = [ens EXCEPT !.pc = "signup", !.outs = Append(@, out),
                                   !.reqs = Append(@, SignupRequest)]
    /\ UNCHANGED <<qbVars, authVars, hook, ev>>

\* the signup settled: its result is dropped and the signin is sent
SignupSettledStopsOnError(r) ==
    /\ ens.pc = "signup"
    /\ LET out == Wrap(r)
       IN  IF Truthy(out.error)
           THEN ens' = [ens EXCEPT !.pc = "done", !.outs = Append(@, out)]
           ELSE ens' = [ens EXCEPT !.pc = "signin", !.outs = Append(@, out),
                                   !.reqs = Append(@, SigninRequest)]
    /\ UNCHANGED <<qbVars, authVars, hook, ev>>
SignupSettled(r) ==
    /\ ens.pc = "signup"
    /\ ens' = [ens EXCEPT !.pc = "signin", !.outs = Append(@, Wrap(r)),
                          !.reqs = Append(@, SigninRequest)]
    /\ UNCHANGED <<qbVars, authVars, hook, ev>>

\* the signin settled: ensureSession returns
SigninSettled(r) ==
    /\ ens.pc = "signin"
    /\ ens' = [ens EXCEPT !.pc = "done", !.outs = Append(@, Wrap(r))]
    /\ UNCHANGED <<qbVars, authVars, hook, ev>>

NextEnsure ==
    \/ EnsureSession
    \/ \E r \in EnsureResponses :
        \/ SessionSettled(r)
        \/ SignupSettled(r)
        \/ SigninSettled(r)

SpecEnsure == Init /\ [][NextEnsure]_vars

\* the hook over the facade: its effect, its cleanup, the ticks of its
\* registration, and the calls another component makes meanwhile
NextHook ==
    \/ \E s \in Subs, c \in CallIds : Mount(s, c)
    \/ Unmount
    \/ \E c \in CallIds :
        \/ SignInWithPassword(c)
        \/ SignOut(c)
        \/ \E r \in AuthResponses : Return(c, r)
    \/ \E s \in Subs :
        \/ Poll(s)
        \/ \E k \in inflight[s], r \in PollResponses : TickSettle(s, k, r)

SpecHook == Init /\ [][NextHook]_vars

SpecApi == Init /\ [][NextApi]_vars


(***************************************************************************)
(* Properties of the query builder (under SpecQB).                         *)
(***************************************************************************)
HasParam(req, k, v) == \E i \in 1..Len(req.params) : req.params[i] = Param(k, v)

\* the request terminal call i of builder b sent
RequestOf(b, i) == sent[b][calls[b][i].fetch]

\* C1: when the only two terminal calls made on a builder both ran on the
\* same CREATE state (insert was called, nothing changed in between), the
\* builder has issued exactly one request, and once both calls have resolved
\* they hold the same result value.
C1_CreateIssuedOnce ==
    \A b \in Builders :
        ( /\ Len(calls[b]) = 2
          /\ calls[b][1].st.method = "POST"
          /\ calls[b][2].st = calls[b][1].st
          /\ calls[b][1].via \in {"then", "single"}
          /\ calls[b][2].via \in {"then", "single"} )
        => /\ Len(sent[b]) = 1
           /\ ( calls[b][1].out # Pending /\ calls[b][2].out # Pending
                => calls[b][1].out = calls[b][2].out )

\* C10: every terminal call made on a state with limit n >= 0 set and no
\* range set emits a request carrying from=0 and to=n-1.
C10_LimitBounds ==
    \A b \in Builders : \A i \in 1..Len(calls[b]) :
        LET st == calls[b][i].st IN
        (st.range = Null /\ st.limit # Null /\ st.limit.n >= 0)
        => /\ HasParam(RequestOf(b, i), "from", "0")
           /\ HasParam(RequestOf(b, i), "to", String(Num(st.limit.n - 1)))


(***************************************************************************)
(* Properties of the polled session (under SpecPoll).                      *)
(***************************************************************************)
IsTickSettle(e) == e.op = "tick" /\ e.phase = "settle"

\* C2: once unsubscribe has returned, the callback of that registration is
\* not invoked again.
C2_NoCallbackAfterUnsubscribe ==
    [][\A s \in Subs : subs[s].status = "cleared" => notes'[s] = notes[s]]_vars

\* the session a tick derives from the response it received
Fetched(r) == SessionOf(Api(r).data)

\* the session observed last before the n-th response of registration s:
\* the one the previous tick fetched, or the cache at registration
LastObserved(s, n) ==
    IF n > 1 THEN Fetched(seen[s][n - 1]) ELSE Or(subs[s].at, Null)

ScriptedResponses ==
    << Response(TRUE, Body("user", Null), "OK"),
       Response(TRUE, Body("user", U1), "OK"),
       Response(TRUE, Body("user", U1), "OK"),
       Response(TRUE, Body("user", Null), "OK") >>

ScriptedNotes ==
    << Note("SIGNED_IN", Session(U1)), Note("SIGNED_OUT", Null) >>

\* the scripted run of C3: registered on a null cache, the ticks received
\* null, u1, u1, null
C3_ScriptGivesTwoNotes ==
    \A s \in Subs :
        (subs[s].status # "none" /\ subs[s].at = Null /\ seen[s] = ScriptedResponses)
        => notes[s] = ScriptedNotes

\* C3 as stated: with the subscriber registered on a null cache and the
\* responses null, {user:u1}, {user:u1}, null received in that order, the
\* callback was invoked exactly twice, SIGNED_IN with {user:u1} then
\* SIGNED_OUT with null; and a tick whose fetched session is structurally
\* equal to the one observed last adds no notification.
C3_StructurallyEqualSilent ==
    /\ []C3_ScriptGivesTwoNotes
    /\ [][\A s \in Subs :
            ( /\ Len(seen'[s]) = Len(seen[s]) + 1
              /\ StructEq(Fetched(seen'[s][Len(seen'[s])]),
                          LastObserved(s, Len(seen'[s]))) )
            => notes'[s] = notes[s]]_vars

\* C3 amended: the same scripted run gives exactly the two notifications;
\* and a tick whose fetched session has the same JSON text as the one
\* observed last adds no notification.
C3_SameTextSilent ==
    /\ []C3_ScriptGivesTwoNotes
    /\ [][\A s \in Subs :
            ( /\ Len(seen'[s]) = Len(seen[s]) + 1
              /\ Stringify(Fetched(seen'[s][Len(seen'[s])]))
                    = Stringify(LastObserved(s, Len(seen'[s]))) )
            => notes'[s] = notes[s]]_vars

\* the scripted run has happened: all four responses were received
C3_Witness ==
    \E s \in Subs :
        /\ subs[s].at = Null
        /\ seen[s] = ScriptedResponses
        /\ notes[s] = ScriptedNotes

\* a fetch that failed: no response, or a non-2xx response
Failed(r) == r.k = "reject" \/ ~r.ok

\* C4: a tick whose fetch failed invokes no callback and leaves the cached
\* session and the registration (its timer included) as they were.
C4_FailedTickAbsorbed ==
    [][(IsTickSettle(ev') /\ Failed(ev'.res))
        => (notes' = notes /\ currentSession' = currentSession /\ subs' = subs)]_vars


(***************************************************************************)
(* Properties of the one-shot auth calls (under Spec).                     *)
(***************************************************************************)
Returned(e, op) == e.op = op /\ e.phase = "return"
GotResponse(e) == e.res.k = "response"

\* C5: a transport failure (the fetch rejects) never surfaces as a thrown
\* exception: the auth call resolves to a result with data null and the
\* error set, and no terminal call of a builder ends in a rejection.
C5_TransportFailureResolves ==
    /\ (ev.phase = "return" /\ ev.op \in OneShots /\ ev.res = Reject)
        => /\ ev.ret # Throw
           /\ ev.ret.error # Null
           /\ ev.op # "signOut" => ev.ret.data = Null
    /\ \A b \in Builders : \A i \in 1..Len(calls[b]) :
            calls[b][i].out \notin {Throw, Caught}


HasErrorField(data) == data.t = "object" /\ "error" \in Keys(data)

\* C6 as stated: a non-2xx response to sign-in whose body has an error
\* field resolves to {data: null, error: that field} and leaves the cached
\* session as it was.
C6_ErrorFieldReturned ==
    ( /\ Returned(ev, "signInWithPassword")
      /\ GotResponse(ev) /\ ~ev.res.ok /\ HasErrorField(ev.res.data) )
    => /\ ev.ret = Result(Null, Get(ev.res.data, "error"))
       /\ currentSession = ev.pre

\* C6 amended: a non-2xx response to sign-in whose body has an error field
\* leaves the cached session as it was and resolves with data null; the
\* error is that field when the field is non-empty (truthy).
C6_TruthyErrorFieldReturned ==
    ( /\ Returned(ev, "signInWithPassword")
      /\ GotResponse(ev) /\ ~ev.res.ok /\ HasErrorField(ev.res.data) )
    => /\ currentSession = ev.pre
       /\ ev.ret.k = "result" /\ ev.ret.data = Null
       /\ Truthy(Get(ev.res.data, "error"))
            => ev.ret = Result(Null, Get(ev.res.data, "error"))

\* a sign-in was refused with a message while a session was cached
C6_Witness ==
    /\ Returned(ev, "signInWithPassword")
    /\ GotResponse(ev) /\ ~ev.res.ok
    /\ Get(ev.res.data, "error") = Str("invalid credentials")
    /\ ev.pre = Session(U1)
    /\ currentSession = Session(U1)

Succeeded(e) == GotResponse(e) /\ e.res.ok

\* C7 as stated: when signInWithPassword or signUp succeeds, the call
\* returns the user of the response and the cached session is {user: that
\* user} at once.
C7_SuccessCachesUser ==
    ( /\ ev.phase = "return" /\ ev.op \in {"signInWithPassword", "signUp"}
      /\ Succeeded(ev) /\ Truthy(Get(ev.res.data, "user")) )
    => /\ ev.ret = Result(Body("user", Get(ev.res.data, "user")), Null)
       /\ currentSession = Session(Get(ev.res.data, "user"))

\* C7 amended: on success (a 2xx response whose body is not null) both
\* calls return the user of the response; signInWithPassword leaves
\* {user: that user} in the cache at once, signUp leaves the cached session
\* as it was.
C7_SignInCachesUser ==
    ( /\ ev.phase = "return" /\ ev.op \in {"signInWithPassword", "signUp"}
      /\ Succeeded(ev) /\ CanReadUser(ev.res.data) )
    => /\ ev.ret = Result(Body("user", Get(ev.res.data, "user")), Null)
       /\ currentSession = IF ev.op = "signInWithPassword"
                           THEN Session(Get(ev.res.data, "user"))
                           ELSE ev.pre

\* a sign-in succeeded on a null cache and no tick has fired
C7_Witness ==
    /\ Returned(ev, "signInWithPassword")
    /\ Succeeded(ev)
    /\ Get(ev.res.data, "user") = U1
    /\ ev.pre = Null
    /\ currentSession = Session(U1)
    /\ \A s \in Subs : subs[s].ticks = 0

SessionFetchers == {"getSession", "getUser"}

\* C9 as stated: a call of getSession or getUser issues exactly one fetch
\* and invokes no callback, and once it has resolved the cached session is
\* the session derived from the response.
C9_FetchUpdatesCache ==
    [][ /\ (ev'.op \in SessionFetchers /\ ev'.phase = "call")
            => /\ nfetch' = nfetch + 1
               /\ pend'[ev'.c].req = Request("GET", "/auth/session", <<>>, Undefined)
               /\ notes' = notes
        /\ (ev'.op \in SessionFetchers /\ ev'.phase = "return")
            => /\ nfetch' = nfetch
               /\ notes' = notes
               /\ GotResponse(ev') => currentSession' = Fetched(ev'.res) ]_vars

\* C9 amended: the same, except that getUser leaves the cached session as
\* it was; only getSession replaces it by the session derived from the
\* response.
C9_GetSessionUpdatesCache ==
    [][ /\ (ev'.op \in SessionFetchers /\ ev'.phase = "call")
            => /\ nfetch' = nfetch + 1
               /\ pend'[ev'.c].req = Request("GET", "/auth/session", <<>>, Undefined)
               /\ notes' = notes
        /\ (ev'.op \in SessionFetchers /\ ev'.phase = "return")
            => /\ nfetch' = nfetch
               /\ notes' = notes
               /\ GotResponse(ev')
                    => currentSession' = IF ev'.op = "getSession"
                                         THEN Fetched(ev'.res)
                                         ELSE currentSession ]_vars

\* getSession resolved with a user on a null cache while a callback was
\* registered, and the callback was not invoked
C9_Witness ==
    /\ Returned(ev, "getSession")
    /\ Succeeded(ev)
    /\ ev.pre = Null
    /\ currentSession = Session(U1)
    /\ \E s \in Subs : subs[s].status = "active" /\ notes[s] = <<>>


(***************************************************************************)
(* Properties of the request a chain emits (under SpecQB), stated on the   *)
(* calls made on the builder, in the order they were made.                 *)
(***************************************************************************)
\* the calls made on builder b up to terminal call i, that call included
UpTo(b, i) == SubSeq(log[b], 1, calls[b][i].pos)

\* the place of the last call of h that satisfies P, 0 when there is none
Last(h, P(_)) ==
    LET I == {j \in 1..Len(h) : P(h[j])}
    IN  IF I = {} THEN 0 ELSE CHOOSE j \in I : \A k \in I : k <= j

IsRange(m) == m.op = "range"
IsLimit(m) == m.op = "limit"
IsOrder(m) == m.op = "order"
IsPage(p)  == p.k \in {"from", "to"}
IsSort(p)  == p.k = "order"

\* C11: when range(a, b) was called on the chain, before or after limit(n)
\* and whatever else was called, the pagination parameters of the emitted
\* request are exactly from=a and to=b (of the last range call).
C11_RangeWins ==
    \A b \in Builders : \A i \in 1..Len(calls[b]) :
        LET h == UpTo(b, i)
            r == Last(h, IsRange)
        IN  r > 0 =>
              SelectSeq(RequestOf(b, i).params, IsPage)
                = << Param("from", String(Num(h[r].from))),
                     Param("to", String(Num(h[r].to))) >>

\* range(1, 3), then limit(n), then a terminal call: the request has to=3
C11_Witness ==
    \E b \in Builders : \E i \in 1..Len(calls[b]) :
        LET h == UpTo(b, i)
        IN  /\ Last(h, IsRange) > 0
            /\ Last(h, IsLimit) > Last(h, IsRange)
            /\ h[Last(h, IsRange)].from = 1
            /\ HasParam(RequestOf(b, i), "from", "1")
            /\ HasParam(RequestOf(b, i), "to", "3")

\* C12: for every column, the emitted request carries exactly one equality
\* parameter when eq was called on that column, with the value of the last
\* of those calls, whatever eq calls were made on other columns; and none
\* when eq was never called on it.
C12_LastEqWins ==
    \A b \in Builders : \A i \in 1..Len(calls[b]) : \A column \in Columns :
        LET h == UpTo(b, i)
            OnColumn(m) == m.op \in {"eq", "delete.eq"} /\ m.col = column
            OfColumn(p) == p.k = "eq." \o column
            e == Last(h, OnColumn)
        IN  SelectSeq(RequestOf(b, i).params, OfColumn)
              = IF e > 0 THEN << Param("eq." \o column, String(h[e].val)) >>
                ELSE <<>>

\* eq("id", v) was called twice with different values before the terminal
C12_Witness ==
    \E b \in Builders : \E i \in 1..Len(calls[b]) :
        LET h == UpTo(b, i)
        IN  /\ Len(h) = 3
            /\ h[1].op = "eq" /\ h[1].col = "id" /\ h[1].val = Num(7)
            /\ h[2].op = "eq" /\ h[2].col = "id" /\ h[2].val = Str("a")
            /\ HasParam(RequestOf(b, i), "eq.id", "a")

\* C13: the emitted request carries at most one sort key, that of the last
\* order call: descending exactly when that call passed ascending:false,
\* ascending when it passed ascending:true or no option; without an order
\* call the request has no sort key.
C13_LastOrderWins ==
    \A b \in Builders : \A i \in 1..Len(calls[b]) :
        LET h == UpTo(b, i)
            o == Last(h, IsOrder)
        IN  SelectSeq(RequestOf(b, i).params, IsSort)
              = IF o > 0
                THEN << Param("order", h[o].col \o "."
                            \o (IF h[o].val = Bool(FALSE) THEN "desc" ELSE "asc")) >>
                ELSE <<>>

\* order("id", {ascending: true}) then order("user_id", {ascending: false})
C13_Witness ==
    \E b \in Builders : \E i \in 1..Len(calls[b]) :
        LET h == UpTo(b, i)
        IN  /\ Len(h) = 3
            /\ h[1].op = "order" /\ h[1].col = "id" /\ h[1].val = Bool(TRUE)
            /\ h[2].op = "order" /\ h[2].col = "user_id" /\ h[2].val = Bool(FALSE)
            /\ HasParam(RequestOf(b, i), "order", "user_id.desc")

\* C14: single() on a READ whose fetch got a 2xx response with a sequence
\* resolves to {data: first element, error: null}, data null when the
\* sequence is empty; when the response is not 2xx it resolves to what the
\* transport helper returned, unchanged, with data null.
C14_SingleFirstRow ==
    \A b \in Builders : \A i \in 1..Len(calls[b]) :
        LET c == calls[b][i]
        IN  (c.via = "single" /\ c.st.method = "GET" /\ c.res.k = "response")
            => /\ (c.res.ok /\ c.res.data.t = "array")
                    => c.out = Result(IF Len(c.res.data.rows) > 0
                                      THEN c.res.data.rows[1] ELSE Null, Null)
               /\ ~c.res.ok
                    => c.out = Api(c.res) /\ c.out.data = Null

\* two single() calls of a READ resolved: one on [], one on two rows
C14_Witness ==
    \E b \in Builders : \E i, j \in 1..Len(calls[b]) :
        /\ calls[b][i].via = "single" /\ calls[b][j].via = "single"
        /\ calls[b][i].st.method = "GET" /\ calls[b][j].st.method = "GET"
        /\ calls[b][i].res = Response(TRUE, Arr(<<>>), "OK")
        /\ calls[b][i].out = Result(Null, Null)
        /\ calls[b][j].res = Response(TRUE, Arr(<<Row2, Row1>>), "OK")
        /\ calls[b][j].out = Result(Row2, Null)

NonTerminals == {"select", "eq", "order", "range", "limit", "insert", "update", "delete"}
\* single, maybeSingle, then / await, eq of the object delete() returned
AwaitedCalls == {"single", "maybeSingle", "then", "delete.eq"}
\* the other two methods of the builder that call run()
HandlerCalls == {"catch", "finally"}

\* in every step, builder b issues a request exactly when the call made
\* on it is one of senders, and then exactly one, built from the closure
\* state as the call leaves it; a step without a call on b issues none
SendsOnlyIn(senders) ==
    \A b \in Builders :
        IF Len(log'[b]) = Len(log[b]) + 1
        THEN IF log'[b][Len(log'[b])].op \in senders
             THEN sent'[b] = Append(sent[b], Run(chain'[b].table, chain'[b].state))
             ELSE sent'[b] = sent[b]
        ELSE log'[b] = log[b] /\ sent'[b] = sent[b]

\* C15 as stated: select, eq, order, range, limit, insert, update and
\* delete issue no request; a request is issued only by single,
\* maybeSingle, then / await or eq on the object delete() returned, and
\* each of these issues exactly one, built from the builder state as it is
\* at that moment.
C15_OnlyAwaitedCallsSend == [][SendsOnlyIn(AwaitedCalls)]_vars

\* C15 amended: the calls that issue a request are single, maybeSingle,
\* then / await, catch, finally and eq on the object delete() returned;
\* each issues exactly one, built from the builder state as it is at that
\* moment, and no other call issues any.
C15_OnlyTerminalsSend == [][SendsOnlyIn(AwaitedCalls \cup HandlerCalls)]_vars

\* eq, limit, then: one request, sent by then, carrying both settings
C15_Witness ==
    \E b \in Builders :
        /\ Len(log[b]) = 3
        /\ log[b][1].op = "eq" /\ log[b][2].op = "limit" /\ log[b][3].op = "then"
        /\ Len(sent[b]) = 1
        /\ sent[b][1] = Run(chain[b].table, chain[b].state)
        /\ Len(sent[b][1].params) = 3

IsEqParam(p) == \E column \in Columns : p.k = "eq." \o column

\* C16: every DELETE request a builder has emitted carries at least one
\* equality filter, whatever was called on the builder and on the object
\* delete() returned; and the delete() call itself issued no request.
C16_DeleteIsScoped ==
    \A b \in Builders :
        /\ \A k \in 1..Len(sent[b]) :
              sent[b][k].method = "DELETE"
                => SelectSeq(sent[b][k].params, IsEqParam) # <<>>
        /\ \A i \in 1..Len(calls[b]) : log[b][calls[b][i].pos].op # "delete"

IsWrite(m) == m.op \in {"insert", "update", "delete"}

MethodOf(op) ==
    CASE op = "insert" -> "POST"
      [] op = "update" -> "PATCH"
      [] op = "delete" -> "DELETE"

\* C18: the method of the emitted request is the one of the last insert
\* (POST), update (PATCH) or delete (DELETE) call of the chain, GET when
\* there was none; the body is the JSON text of the payload of that call
\* when it was insert or update, and there is no body for GET and DELETE,
\* also when a payload was stored earlier in the chain.
C18_MethodAndBody ==
    \A b \in Builders : \A i \in 1..Len(calls[b]) :
        LET h == UpTo(b, i)
            w == Last(h, IsWrite)
            req == RequestOf(b, i)
        IN  /\ req.method = IF w = 0 THEN "GET" ELSE MethodOf(h[w].op)
            /\ req.body = IF w > 0 /\ h[w].op \in {"insert", "update"}
                          THEN Str(Stringify(h[w].val))
                          ELSE Undefined

\* insert(payload), delete(), then: a DELETE request without a body
C18_Witness ==
    \E b \in Builders : \E i \in 1..Len(calls[b]) :
        LET h == UpTo(b, i)
        IN  /\ Len(h) = 3
            /\ h[1].op = "insert" /\ h[2].op = "delete"
            /\ calls[b][i].st.payload # Null
            /\ RequestOf(b, i).method = "DELETE"
            /\ RequestOf(b, i).body = Undefined

(***************************************************************************)
(* Properties of the result values (under SpecRpc for invoke and rpc).     *)
(***************************************************************************)
\* a result value of a request that got response r: never data and error
\* both non-null; data null and error non-null when r is not 2xx, error
\* null when it is
ResultShape(r, ret) ==
    ret.k = "result" =>
        /\ ~(ret.data # Null /\ ret.error # Null)
        /\ ~r.ok => ret.data = Null /\ ret.error # Null
        /\ r.ok => ret.error = Null

\* C17: every result value {data, error} the transport helper, a builder
\* terminal call, rpc and functions.invoke return has not both data and
\* error non-null: a failure has data null and error non-null, a success
\* has error null.
C17_DataXorError ==
    /\ (ev.phase = "return" /\ ev.op \in Invocations /\ GotResponse(ev))
        => ResultShape(ev.res, Api(ev.res)) /\ ResultShape(ev.res, ev.ret)
    /\ \A b \in Builders : \A i \in 1..Len(calls[b]) :
            calls[b][i].res.k = "response"
            => /\ ResultShape(calls[b][i].res, Api(calls[b][i].res))
               /\ ResultShape(calls[b][i].res, calls[b][i].out)

(***************************************************************************)
(* Properties of two registrations polling side by side (under SpecPair).  *)
(***************************************************************************)
EventOf(session) == IF session # Null THEN "SIGNED_IN" ELSE "SIGNED_OUT"

\* C19: the compare-and-swap of a tick is one step.  Whenever the callback
\* of a registration is invoked or its last observed value is replaced,
\* both happen in that same step, which is the settling of one tick of that
\* registration: the cache becomes the session that tick fetched, last its
\* text, the callback gets that session; and nothing of the other
\* registration (its last value, its callback, its ticks in flight) moves
\* in that step.  The cache is written by no other step.
C19_CompareAndSwapAtomic ==
    [][ /\ \A s \in Pair :
              ( \/ notes'[s] # notes[s]
                \/ subs[s].status # "none" /\ subs'[s].last # subs[s].last )
              => /\ \E k \in inflight[s] : inflight'[s] = inflight[s] \ {k}
                 /\ Len(seen'[s]) = Len(seen[s]) + 1
                 /\ Stringify(Fetched(seen'[s][Len(seen'[s])])) # subs[s].last
                 /\ currentSession' = Fetched(seen'[s][Len(seen'[s])])
                 /\ subs'[s].last = Stringify(currentSession')
                 /\ notes'[s] = Append(notes[s],
                                       Note(EventOf(currentSession'), currentSession'))
                 /\ \A t \in Pair \ {s} :
                        /\ subs'[t] = subs[t]
                        /\ notes'[t] = notes[t]
                        /\ inflight'[t] = inflight[t]
                        /\ seen'[t] = seen[t]
        /\ currentSession' # currentSession
              => \E s \in Pair : notes'[s] # notes[s] ]_vars

\* a tick of registration 1 swapped in {user:u1} and notified while a tick
\* of registration 2, fired earlier, was still awaiting its response
C19_Witness ==
    /\ IsTickSettle(ev) /\ ev.s = 1
    /\ ev.res = Response(TRUE, Body("user", U1), "OK")
    /\ notes[1] = << Note("SIGNED_IN", Session(U1)) >>
    /\ subs[1].last = Stringify(Session(U1))
    /\ currentSession = Session(U1)
    /\ inflight[2] # {}
    /\ notes[2] = <<>>

\* C20: when the tick of a registration detects a change (it replaces its
\* last observed value), the cache becomes the new session and the callback
\* of every registration that is registered at that moment is invoked with
\* the new session and SIGNED_IN when it is non-null, SIGNED_OUT when it is
\* null: with two registered, the other one's callback too.
C20_ChangeReachesAll ==
    [][\A s \in Pair :
          (IsTickSettle(ev') /\ ev'.s = s /\ subs'[s].last # subs[s].last)
          => /\ currentSession' = Fetched(ev'.res)
             /\ \A t \in Pair :
                    subs[t].status = "active"
                    => notes'[t] = Append(notes[t],
                                          Note(EventOf(currentSession'), currentSession'))]_vars

(***************************************************************************)
(* Properties of the cached session (under Spec).                          *)
(***************************************************************************)
\* null, or an object whose user is an object with a non-null id
ValidSession(v) ==
    \/ v = Null
    \/ /\ v.t = "object"
       /\ Get(v, "user").t = "object"
       /\ Get(Get(v, "user"), "id") \notin {Undefined, Null}

\* C21: in every reachable state the cached session is null or an object
\* whose user is a non-null user with an id.
C21_CacheWellFormed == ValidSession(currentSession)

(***************************************************************************)
(* Properties of the transport helper (under SpecApi).                     *)
(***************************************************************************)
\* the body is not empty: neither JSON null nor the empty text
NonEmptyBody(data) == data \notin {Null, Str("")}

\* C22 as stated: for a non-2xx response data is null and the error is the
\* error field of the parsed body when the body has one, otherwise the
\* whole body when the body is not empty, otherwise the status text.
C22_ErrorFieldWhenPresent ==
    (Returned(ev, "api") /\ GotResponse(ev) /\ ~ev.res.ok)
    => /\ ev.ret.data = Null
       /\ ev.ret.error =
             IF HasErrorField(ev.res.data) THEN Get(ev.res.data, "error")
             ELSE IF NonEmptyBody(ev.res.data) THEN ev.res.data
             ELSE Str(ev.res.statusText)

\* C22 amended: for a non-2xx response data is null and the error is the
\* error field of the parsed body when that field is truthy, otherwise the
\* whole body when the body is truthy (an object, an array, a non-empty
\* text, a non-zero number), otherwise the status text.
C22_ErrorByTruthiness ==
    (Returned(ev, "api") /\ GotResponse(ev) /\ ~ev.res.ok)
    => /\ ev.ret.data = Null
       /\ ev.ret.error =
             IF Truthy(Get(ev.res.data, "error")) THEN Get(ev.res.data, "error")
             ELSE IF Truthy(ev.res.data) THEN ev.res.data
             ELSE Str(ev.res.statusText)

\* three non-2xx responses in a row would need three calls; the witness is
\* the middle case: a body without an error field, returned whole
C22_Witness ==
    /\ Returned(ev, "api")
    /\ ev.res = Response(FALSE, Body("message", Str("denied")), "Not Found")
    /\ ev.ret = Result(Null, Body("message", Str("denied")))

(***************************************************************************)
(* Properties of two builders (under SpecBuilders).                        *)
(***************************************************************************)
\* the step is from() of builder a or a call made on a or on the object
\* its delete() returned
CallOn(a) == chain'[a].made # chain[a].made \/ log'[a] # log[a]

\* C23: a call on one builder leaves the other builder's filters, order,
\* range, limit, method and payload, the request it would emit and the
\* requests it has emitted unchanged.
C23_BuildersIndependent ==
    [][\A a \in BuilderPair, b \in BuilderPair :
          (a # b /\ CallOn(a))
          => /\ chain'[b] = chain[b]
             /\ Run(chain'[b].table, chain'[b].state) = Run(chain[b].table, chain[b].state)
             /\ sent'[b] = sent[b]
             /\ delSub'[b] = delSub[b]]_vars

\* the first builder was turned into an insert after the second got a
\* filter, and the second then sent its filtered GET
C23_Witness ==
    /\ chain[1].made /\ chain[2].made
    /\ chain[1].state.method = "POST"
    /\ chain[2].state.filters # <<>>
    /\ Len(sent[2]) = 1
    /\ sent[2][1] = Request("GET", "/db/" \o chain[2].table,
                            FilterParams(chain[2].state.filters), Undefined)
    /\ sent[1] = <<>>

(***************************************************************************)
(* Unsubscribing twice (under SpecPair).                                   *)
(***************************************************************************)
\* C24: unsubscribe on a registration whose timer is already released
\* returns normally and changes neither the cached session nor any
\* registration, its notifications or its ticks in flight.
C24_SecondUnsubscribeNoOp ==
    [][(ev'.op = "unsubscribe" /\ ev'.was = "cleared")
       => /\ ev'.ret = Undefined
          /\ currentSession' = currentSession
          /\ subs' = subs
          /\ notes' = notes
          /\ inflight' = inflight
          /\ seen' = seen]_vars

\* the second unsubscribe of one handle while the other registration is
\* polling and a session is cached
C24_Witness ==
    /\ ev.op = "unsubscribe"
    /\ ev.was = "cleared"
    /\ \E q \in Pair : q # ev.s /\ subs[q].status = "active"
    /\ currentSession # Null

(***************************************************************************)
(* Consecutive notifications (under Spec).                                 *)
(***************************************************************************)
\* the session a callback invoked in this step was passed equals the cache
\* as the step leaves it
CallbackSeesCache ==
    \A s \in Subs :
        notes'[s] # notes[s] => currentSession' = notes'[s][Len(notes'[s])].session

\* C25 as stated: no two consecutive notifications of a subscriber carry
\* structurally equal sessions, and a callback is invoked with the session
\* that is cached at that moment.
C25_NoStructuralRepeat ==
    /\ [](\A s \in Subs : \A i \in 1..(Len(notes[s]) - 1) :
             ~StructEq(notes[s][i].session, notes[s][i + 1].session))
    /\ [][CallbackSeesCache]_vars

\* C25 amended: no two consecutive notifications of a subscriber carry
\* sessions with the same JSON text, and a callback is invoked with the
\* session that is cached at that moment.
C25_NoTextRepeat ==
    /\ [](\A s \in Subs : \A i \in 1..(Len(notes[s]) - 1) :
             Stringify(notes[s][i].session) # Stringify(notes[s][i + 1].session))
    /\ [][CallbackSeesCache]_vars

\* two notifications in a row while a one-shot call has also written the
\* cache
C25_Witness ==
    \E s \in Subs :
        /\ Len(notes[s]) = 2
        /\ notes[s][1].session # notes[s][2].session
        /\ currentSession = notes[s][2].session
        /\ ev.op = "tick"
        /\ \E c \in CallIds : pend[c].op = "done"

(***************************************************************************)
(* Responses arriving out of order (under SpecPoll).                       *)
(***************************************************************************)
\* the step settles a tick of s that was sent before every tick of s
\* settled so far, right after a later-sent tick received the response
\* ev.res, which the cache and last reflect
StaleSettle(s) ==
    /\ IsTickSettle(ev) /\ ev.s = s /\ ev.res.k # "reject"
    /\ currentSession = Fetched(ev.res)
    /\ subs[s].last = Stringify(Fetched(ev.res))
    /\ \E k \in inflight[s] \ inflight'[s] :
          /\ \E j \in 1..subs[s].ticks : j \notin inflight[s]
          /\ \A j \in 1..subs[s].ticks : j \notin inflight[s] => j > k

\* C26: when the response of an earlier-sent tick arrives after the
\* response of a later-sent tick of the same subscription, the cached
\* session, last and the notifications stay those of the later-sent one.
C26_LaterRequestWins ==
    [][\A s \in Subs :
          StaleSettle(s)
          => /\ currentSession' = currentSession
             /\ subs'[s].last = subs[s].last
             /\ notes'[s] = notes[s]]_vars

(***************************************************************************)
(* Notification after signing in and out (under SpecLive).                 *)
(***************************************************************************)
\* a tick of s has still to receive its response
TickToCome(s) ==
    subs[s].status = "active" /\ (subs[s].ticks < MaxPolls \/ inflight[s] # {})

LastNote(s) == notes[s][Len(notes[s])]

\* C27: when signInWithPassword (or getSession) has put a session in the
\* cache while the subscriber still holds null as its last value and a tick
\* is still to come, the subscriber is notified SIGNED_IN with that session
\* unless the session is ended first; when signOut has emptied the cache
\* while the subscriber's last value is a session, the subscriber is
\* notified SIGNED_OUT unless a session is established first.
C27_NotifiedAfterSignInAndOut ==
    \A s \in Subs :
        /\ ( /\ ev.op \in {"signInWithPassword", "getSession"} /\ ev.phase = "return"
             /\ currentSession # Null
             /\ subs[s].last = "null"
             /\ TickToCome(s) )
           ~> ( \/ /\ notes[s] # <<>>
                   /\ LastNote(s) = Note("SIGNED_IN", currentSession)
                   /\ subs[s].last = Stringify(currentSession)
                \/ currentSession = Null )
        /\ ( /\ ev.op = "signOut" /\ ev.phase = "return"
             /\ currentSession = Null
             /\ subs[s].last # "null"
             /\ TickToCome(s) )
           ~> ( \/ /\ notes[s] # <<>>
                   /\ LastNote(s) = Note("SIGNED_OUT", Null)
                   /\ subs[s].last = "null"
                \/ currentSession # Null )

\* a subscriber registered on a null cache was notified SIGNED_IN and then
\* SIGNED_OUT: a one-shot call wrote the cache before each notification
C27_Witness ==
    \E s \in Subs :
        /\ subs[s].at = Null
        /\ notes[s] = << Note("SIGNED_IN", Session(U1)), Note("SIGNED_OUT", Null) >>
        /\ \A c \in CallIds : pend[c].op = "done"

(***************************************************************************)
(* The useAuthSession hook (under SpecHook).                               *)
(***************************************************************************)
\* C28: once the hook is unmounted its user, session and loading state
\* never change, whatever tick or getSession call completes afterwards.
C28_NoUpdateAfterUnmount ==
    [][hook.effect = "unmounted" => hook' = hook]_vars

\* after the unmount the getSession call of the effect returned a session
\* and a tick of its registration notified one, and the state is still the
\* initial one
C28_Witness ==
    /\ hook.effect = "unmounted"
    /\ hook.session = Null /\ hook.loading
    /\ pend[hook.call].op = "done"
    /\ notes[hook.sub] # <<>>
    /\ IsTickSettle(ev)
    /\ ev.res.k # "reject"
    /\ Fetched(ev.res) = currentSession
    /\ currentSession # Null

\* C29: while the hook is mounted, once its getSession call has settled
\* loading is false, and loading never returns to true.
C29_LoadingEnds ==
    /\ []((hook.effect = "mounted" /\ pend[hook.call].op = "done") => ~hook.loading)
    /\ [][~hook.loading => ~hook'.loading]_vars

(***************************************************************************)
(* ensureSession (under SpecEnsure).                                       *)
(***************************************************************************)
\* the paths of the requests ensureSession has sent, in order
Paths == [i \in 1..Len(ens.reqs) |-> ens.reqs[i].path]

\* C30: when the session fetch gave a user, the session request is the only
\* one ever sent; otherwise the signup is sent once the session fetch has
\* settled and the signin once the signup has settled, whatever the signup
\* gave, and nothing more is sent.
C30_SignupThenSignin ==
    /\ ens.pc = "idle" => Paths = <<>> /\ ens.outs = <<>>
    /\ ens.pc = "session" => Paths = <<"/auth/session">> /\ ens.outs = <<>>
    /\ (ens.outs # <<>> /\ Truthy(OptGet(ens.outs[1].data, "user")))
       => ens.pc = "done" /\ Paths = <<"/auth/session">> /\ Len(ens.outs) = 1
    /\ (ens.outs # <<>> /\ ~Truthy(OptGet(ens.outs[1].data, "user")))
       => \/ /\ ens.pc = "signup"
             /\ Paths = <<"/auth/session", "/auth/signup">>
             /\ Len(ens.outs) = 1
          \/ /\ ens.pc = "signin"
             /\ Paths = <<"/auth/session", "/auth/signup", "/auth/signin">>
             /\ Len(ens.outs) = 2
          \/ /\ ens.pc = "done"
             /\ Paths = <<"/auth/session", "/auth/signup", "/auth/signin">>
             /\ Len(ens.outs) = 3

\* ensureSession returned after a session fetch without a user, a signup
\* that gave an error and a signin
C30_Witness ==
    /\ ens.pc = "done"
    /\ Len(ens.outs) = 3
    /\ ens.outs[1] = Result(Body("user", Null), Null)
    /\ ens.outs[2] = Result(Null, Body("error", Str("exists")))
    /\ ens.outs[3] = Result(Body("user", U1), Null)

=============================================================================
